---- MODULE Spec2Model ----
(***************************************************************************)
(* Model of pangraph/tree.py: the neighbor-joining tree construction       *)
(* (Tree.nj), the progressive merge walk (Tree.align), the JSON round trip *)
(* (Tree.write_json, Tree.from_json) and the table reader (parse).         *)
(*                                                                         *)
(* Python objects live in a heap: `nodes` holds the Node objects, `lists`  *)
(* holds the Python list objects that Node.children refers to.  List 1 is  *)
(* the list object created once for the default argument `children=[]` of  *)
(* Node.__init__; every Node built without an explicit children argument   *)
(* refers to that same object.                                             *)
(*                                                                         *)
(* Real numbers are exact multiples of 1/SCALE (floating-point rounding is *)
(* not modelled).  Python positions are 0-based, positions here 1-based.   *)
(***************************************************************************)
EXTENDS Integers, Sequences, FiniteSets, TLC

VARIABLES
    nodes,      \* heap of Node objects: node id -> Node record
    lists,      \* heap of Python list objects: list id -> sequence of node ids
    njpc,       \* position of the process w.r.t. Tree.nj: "idle" or "loop"
    T,          \* Tree.nj: the root Node of the tree under construction
    mtx,        \* Tree.nj: the working distance matrix
    idx,        \* Tree.nj: counter naming the internal nodes
    names,      \* Tree.nj: the names argument of the running call
    trees,      \* the trees returned by Tree.nj so far, with their arguments
    ncalls,     \* number of calls of Tree.nj made so far
    err,        \* exception raised by the last call of Tree.nj, "" if none
    lastJoin,   \* locals of the last executed Tree.nj.join, None before it
    arg,        \* the arguments of the last call of Tree.nj: the names, and
                \* the caller's matrix object as given and as it is now
    apc,        \* position of Tree.align: "none", "start", "seed", "walk",
                \* "merge0", "refine", "done" or "error"
    aroot,      \* Tree.align: self.root
    aleaves,    \* Tree.align: self.leaves, the cached leaf list
    seedk,      \* Tree.align: position of the seeding loop in the leaf list
    order,      \* Tree.align: the sequence self.postorder() walks through
    pos,        \* Tree.align: position of the walk in that sequence
    frame,      \* Tree.align: arguments and locals of the running merge
    contins,    \* merge0: the answers of the self-union passes made so far
                \* by the running call (empty when no call is running)
    exc,        \* the exception that ended Tree.align, "" if none
    visits,     \* node id -> number of times the walk processed it (nnodes)
    finished,   \* nodes whose loop body has completed
    attempts,   \* the calls of merge0 made so far, in order
    rejected,   \* nodes whose binary merge the quality gate rejected
    lastM0,     \* what the merge0 that is running or has just returned saw
    lastChoice, \* the two results of the merge1 that has just returned
    jpc,        \* position w.r.t. the JSON round trip: "none", "built",
                \* "attached", "written" or "loaded"
    jroot,      \* the root Node of the tree that is written
    jseqs,      \* its seqs attribute: a dict from Node to sequence
    file,       \* the text written by Tree.write_json, as JSON tokens
    loaded,     \* the Tree returned by Tree.from_json, None before it
    ppc,        \* position w.r.t. parse: "none", "given" or "done"
    table,      \* the file handed to parse: header and lines
    parsed      \* what parse returned, None before it

njVars == <<njpc, T, mtx, idx, names, trees, ncalls, err, lastJoin, arg>>
alignVars == <<apc, aroot, aleaves, seedk, order, pos, frame, contins, exc, visits,
               finished, attempts, rejected, lastM0, lastChoice>>
heapVars == <<nodes, lists>>
jsonVars == <<jpc, jroot, jseqs, file, loaded>>
parseVars == <<ppc, table, parsed>>
ioVars == <<jsonVars, parseVars>>
vars == <<nodes, lists, njVars, alignVars, ioVars>>

\* ------------------------------------------------------------------------
\* Bounds

MaxN == 4
MaxCalls == 2
MaxHeap == 10
MaxLeaves == 4
MaxRows == 4
Dists == {1, 5}
\* compression ratios, in hundredths
Ratios == {3, 7, 10}
LeafRatios == {10}
XRatios == {1, 2}

\* ------------------------------------------------------------------------
\* Program constants

MAXSELFMAPS == 25

\* ------------------------------------------------------------------------
\* Arithmetic helpers

RECURSIVE Fact(_)
Fact(k) == IF k <= 1 THEN 1 ELSE k * Fact(k - 1)

\* one unit of distance; every division of the algorithm is exact on
\* multiples of SCALE for matrices of dimension <= MaxN
SCALE == (2 ^ MaxN) * Fact(MaxN - 2)

RECURSIVE SumSeq(_)
SumSeq(s) == IF s = <<>> THEN 0 ELSE Head(s) + SumSeq(Tail(s))

Range(s) == {s[k] : k \in DOMAIN s}

\* s without its element at position k
RemoveAt(s, k) == [x \in 1..(Len(s) - 1) |-> IF x < k THEN s[x] ELSE s[x + 1]]

\* Optional values: <<>> is None, <<v>> is the value v
None == <<>>
Some(v) == <<v>>
IsSet(o) == o # <<>>
Val(o) == o[1]

\* ------------------------------------------------------------------------
\* Heap of Python objects

\* Node.__init__ : the record of a freshly constructed Node whose children
\* attribute refers to list object `childlist`
Node(name, parent, dist, childlist) ==
    [name |-> name, dist |-> dist, parent |-> parent, children |-> childlist,
     fapath |-> "", graph |-> None]

\* the list object of the default argument children=[] of Node.__init__
DefaultChildren == 1

\* Node.new_parent
new_parent(node, parent, dist) ==
    [node EXCEPT !.parent = parent, !.dist = Some(IF dist > 0 THEN dist ELSE 0)]

\* f"NODE_{idx:05d}"
NodeNames == <<"NODE_00000", "NODE_00001", "NODE_00002", "NODE_00003",
               "NODE_00004", "NODE_00005", "NODE_00006", "NODE_00007",
               "NODE_00008", "NODE_00009", "NODE_00010", "NODE_00011">>
NodeName(i) == NodeNames[i + 1]

\* ------------------------------------------------------------------------
\* Neighbor joining: the pure helpers of Tree.nj

RowSum(D, i) == SumSeq(D[i])
ColSum(D, j) == SumSeq([r \in 1..Len(D) |-> D[r][j]])

\* an entry of the Q matrix: inf marks np.inf
Fin(v) == [inf |-> FALSE, v |-> v]
Inf == [inf |-> TRUE, v |-> 0]
Less(a, b) == (~a.inf) /\ (b.inf \/ a.v < b.v)

\* Tree.nj.q
q(D) ==
    LET n == Len(D)
    IN  [i \in 1..n |-> [j \in 1..n |->
            IF i = j THEN Inf
            ELSE Fin((n - 2) * D[i][j] - (ColSum(D, j) + RowSum(D, i)))]]

\* Tree.nj.minpair : np.argmin returns the first minimum of the row-major
\* flattened matrix
minpair(Q) ==
    LET n    == Len(Q)
        At(k) == Q[((k - 1) \div n) + 1][((k - 1) % n) + 1]
        IsMin(k) == \A l \in 1..(n * n) : ~Less(At(l), At(k))
        k0   == CHOOSE k \in 1..(n * n) :
                    IsMin(k) /\ \A l \in 1..(k - 1) : ~IsMin(l)
        i    == ((k0 - 1) \div n) + 1
        j    == ((k0 - 1) % n) + 1
    IN  IF i > j THEN <<j, i>> ELSE <<i, j>>

\* Tree.nj.pairdists, lines 176-178: the branch lengths before correction
rawdists(D, i, j) ==
    LET n  == Len(D)
        d1 == (D[i][j] \div 2) + ((RowSum(D, i) - RowSum(D, j)) \div (2 * (n - 2)))
        d2 == D[i][j] - d1
    IN  <<d1, d2>>

\* Tree.nj.pairdists, lines 180-186: "remove negative branches"
nonneg(d) ==
    LET a == IF d[1] < 0 THEN <<0, d[2] - d[1]>> ELSE d
    IN  IF a[2] < 0 THEN <<a[1] - a[2], 0>> ELSE a

\* Tree.nj.pairdists
pairdists(D, i, j) ==
    LET d == nonneg(rawdists(D, i, j))
    IN  [d1 |-> d[1], d2 |-> d[2],
         dnew |-> [k \in 1..Len(D) |-> (D[i][k] + D[j][k] - D[i][j]) \div 2]]

\* lines 206-208 of Tree.nj.join: write dnew into row and column i of the
\* array D and zero the diagonal entry, in place
overwrite(D, i, dnew) ==
    [r \in 1..Len(D) |-> [c \in 1..Len(D) |->
        IF r = i /\ c = i THEN 0
        ELSE IF r = i THEN dnew[c]
        ELSE IF c = i THEN dnew[r]
        ELSE D[r][c]]]

\* lines 206-210 of Tree.nj.join: write dnew into row and column i, zero the
\* diagonal entry, delete row and column j (np.delete returns a new array)
reduce(D, i, j, dnew) ==
    LET n  == Len(D)
        W  == overwrite(D, i, dnew)
    IN  RemoveAt([r \in 1..n |-> RemoveAt(W[r], j)], j)

\* ------------------------------------------------------------------------
\* Inputs of Tree.nj

\* symmetric zero-diagonal n x n matrices with entries from Dists
RECURSIVE PairIndex(_, _)
PairIndex(i, j) == IF i > j THEN PairIndex(j, i) ELSE ((j - 1) * (j - 2)) \div 2 + i

Matrices(n) ==
    {[r \in 1..n |-> [c \in 1..n |->
         IF r = c THEN 0 ELSE SCALE * e[PairIndex(r, c)]]] :
     e \in [1..((n * (n - 1)) \div 2) -> Dists]}

AllNames == <<"A", "B", "C", "D", "E", "F", "G", "H", "I", "J", "K", "L">>

\* n distinct names, or the same list with its last name replaced by the first
NameLists(n) ==
    {SubSeq(AllNames, 1, n),
     [k \in 1..n |-> IF k = n THEN AllNames[1] ELSE AllNames[k]]}

Distinct_adjacent(s) == \A a \in 1..(Len(s) - 1) : s[a] # s[a + 1]

\* line 220: len(names) == len(set(names))
Distinct(s) == \A a, b \in DOMAIN s : a # b => s[a] # s[b]

\* ------------------------------------------------------------------------
\* Tree.nj as a process: one call is NjBegin, then NjJoin while the matrix
\* has more than two rows, then NjReturn

RootChildren(t) == lists[nodes[t].children]

\* lines 220-225: the uniqueness assertion, T = Tree(), one leaf per name.
\* Tree() builds Node("ROOT", None, 0), whose children attribute is the
\* default-argument list; each leaf gets a list object of its own.
NjBegin(M, nms) ==
    /\ njpc = "idle"
    /\ ncalls < MaxCalls
    /\ Len(nodes) + 2 * Len(nms) - 1 <= MaxHeap
    /\ ncalls' = ncalls + 1
    /\ lastJoin' = None
    /\ arg' = Some([names |-> nms, given |-> M, now |-> M])
    /\ UNCHANGED <<alignVars, ioVars>>
    /\ IF ~Distinct(nms)
       THEN /\ err' = "AssertionError"
            /\ UNCHANGED <<nodes, lists, njpc, T, mtx, idx, names, trees>>
       ELSE LET n    == Len(nms)
                root == Len(nodes) + 1
                leaf(k) == root + k
                leaflist(k) == Len(lists) + k
            IN  /\ nodes' = nodes \o <<Node("ROOT", 0, Some(0), DefaultChildren)>>
                              \o [k \in 1..n |-> Node(nms[k], root, None, leaflist(k))]
                /\ lists' = [l \in 1..(Len(lists) + n) |->
                                IF l = DefaultChildren
                                THEN lists[l] \o [k \in 1..n |-> leaf(k)]
                                ELSE IF l <= Len(lists) THEN lists[l] ELSE <<>>]
                /\ T' = root
                /\ mtx' = M
                /\ names' = nms
                /\ idx' = 0
                /\ err' = ""
                /\ njpc' = "loop"
                /\ UNCHANGED trees

\* lines 227-230 with Tree.nj.join (lines 191-216): one iteration of the loop
NjJoin ==
    /\ njpc = "loop"
    /\ Len(mtx) > 2
    /\ LET ij   == minpair(q(mtx))
           i    == ij[1]
           j    == ij[2]
           rc   == RootChildren(T)
           node == Len(nodes) + 1
           nl   == Len(lists) + 1
           pd   == pairdists(mtx, i, j)
           withNode == nodes \o <<Node(NodeName(idx), T, None, nl)>>
           relink1  == [withNode EXCEPT ![rc[i]] = new_parent(@, node, pd.d1)]
           relink2  == [relink1 EXCEPT ![rc[j]] = new_parent(@, node, pd.d2)]
       IN  /\ nodes' = relink2
           /\ lists' = [l \in 1..nl |->
                           IF l = nl THEN <<rc[i], rc[j]>>
                           ELSE IF l = nodes[T].children
                                THEN RemoveAt([rc EXCEPT ![i] = node], j)
                                ELSE lists[l]]
           /\ mtx' = reduce(mtx, i, j, pd.dnew)
           /\ idx' = idx + 1
           /\ lastJoin' = Some([i |-> i, j |-> j, Dij |-> mtx[i][j],
                                raw |-> rawdists(mtx, i, j),
                                d1 |-> pd.d1, d2 |-> pd.d2,
                                dimBefore |-> Len(mtx),
                                childrenBefore |-> Len(rc)])
           \* in the first iteration D is the caller's array
           /\ arg' = IF idx = 0
                     THEN Some([Val(arg) EXCEPT !.now = overwrite(mtx, i, pd.dnew)])
                     ELSE arg
    /\ UNCHANGED <<njpc, T, names, trees, ncalls, err>>
    /\ UNCHANGED <<alignVars, ioVars>>

\* lines 232-237: split the last distance between the two root children
NjReturn ==
    /\ njpc = "loop"
    /\ Len(mtx) = 2
    /\ LET d  == mtx[1][2]
           rc == RootChildren(T)
           half1 == [nodes EXCEPT ![rc[1]].dist = Some(d \div 2)]
       IN  nodes' = [half1 EXCEPT ![rc[2]].dist = Some(d \div 2)]
    /\ trees' = Append(trees, [root |-> T, names |-> names])
    /\ njpc' = "idle"
    /\ UNCHANGED <<lists, T, mtx, idx, names, ncalls, err, lastJoin, arg>>
    /\ UNCHANGED <<alignVars, ioVars>>

\* the matrix [[0, .3, .5], [.3, 0, .4], [.5, .4, 0]], one unit being 0.1
ExampleMatrix ==
    <<<<0, 3 * SCALE, 5 * SCALE>>,
      <<3 * SCALE, 0, 4 * SCALE>>,
      <<5 * SCALE, 4 * SCALE, 0>>>>

NjInputs(n) == Matrices(n) \cup (IF n = 3 THEN {ExampleMatrix} ELSE {})

NjCall == \E n \in 2..MaxN : \E M \in NjInputs(n) : \E nms \in NameLists(n) :
              NjBegin(M, nms)

\* no call of Tree.nj made yet
NjIdle ==
    /\ njpc = "idle"
    /\ T = 0
    /\ mtx = <<>>
    /\ idx = 0
    /\ names = <<>>
    /\ trees = <<>>
    /\ ncalls = 0
    /\ err = ""
    /\ lastJoin = None
    /\ arg = None

\* no call of Tree.align made
AlignIdle ==
    /\ apc = "none"
    /\ aroot = 0
    /\ aleaves = <<>>
    /\ seedk = 0
    /\ order = <<>>
    /\ pos = 0
    /\ frame = None
    /\ contins = <<>>
    /\ exc = ""
    /\ visits = <<>>
    /\ finished = {}
    /\ attempts = <<>>
    /\ rejected = {}
    /\ lastM0 = None
    /\ lastChoice = None

\* nothing written or read yet
JsonIdle ==
    /\ jpc = "none"
    /\ jroot = 0
    /\ jseqs = <<>>
    /\ file = <<>>
    /\ loaded = None

\* parse not called
ParseIdle ==
    /\ ppc = "none"
    /\ table = <<>>
    /\ parsed = None

IoIdle == JsonIdle /\ ParseIdle

InitNJ ==
    /\ nodes = <<>>
    /\ lists = <<<<>>>>
    /\ NjIdle
    /\ AlignIdle
    /\ IoIdle

NextNJ == NjCall \/ NjJoin \/ NjReturn

SpecNJ == InitNJ /\ [][NextNJ]_vars

\* ------------------------------------------------------------------------
\* Reading a tree off the heap

RECURSIVE Concat(_)
Concat(ss) == IF ss = <<>> THEN <<>> ELSE Head(ss) \o Concat(Tail(ss))

\* Node.is_leaf
is_leaf(n) == Len(lists[nodes[n].children]) = 0

RECURSIVE preorder(_)
preorder(n) ==
    LET ch == lists[nodes[n].children]
    IN  <<n>> \o Concat([k \in 1..Len(ch) |-> preorder(ch[k])])

\* Node.postorder : all descendants of n, children first, then n itself
RECURSIVE postorder(_)
postorder(n) ==
    LET ch == lists[nodes[n].children]
    IN  Concat([k \in 1..Len(ch) |-> postorder(ch[k])]) \o <<n>>

\* Tree.get_leafs without the cache: the leaves in postorder
LeavesOf(root) == SelectSeq(postorder(root), is_leaf)

LeafNames(root) == [k \in 1..Len(LeavesOf(root)) |-> nodes[LeavesOf(root)[k]].name]

\* the divisions of pairdists and of the final split are exact in units of
\* 1/SCALE (sanity condition of the fixed-point representation)
ExactArithmetic ==
    njpc = "loop" =>
        /\ \A r, c \in 1..Len(mtx) : mtx[r][c] % 2 = 0
        /\ Len(mtx) > 2 =>
              LET ij == minpair(q(mtx))
              IN  (RowSum(mtx, ij[1]) - RowSum(mtx, ij[2])) % (2 * (Len(mtx) - 2)) = 0

\* ------------------------------------------------------------------------
\* Trees handed to Tree.align: every binary shape with at most MaxLeaves
\* leaves, laid out on the heap the way Node.from_dict builds it (a node
\* first, then its children in order; every node owns its children list)

RECURSIVE Shapes(_)
Shapes(k) ==
    IF k = 1 THEN {<<>>}
    ELSE UNION {{<<l, r>> : l \in Shapes(a), r \in Shapes(k - a)} : a \in 1..(k - 1)}

\* two pairs of leaves under one node, and a fifth leaf beside that node
DeepShapes ==
    LET pair == <<<<>>, <<>>>>
    IN  {<<<<pair, pair>>, <<>>>>, <<<<>>, <<pair, pair>>>>}

AllShapes == UNION {Shapes(k) : k \in 1..MaxLeaves} \cup DeepShapes

RECURSIVE Size(_)
Size(sh) == 1 + SumSeq([k \in 1..Len(sh) |-> Size(sh[k])])

RECURSIVE Build(_, _, _)
Build(sh, parent, id) ==
    LET cid(k) == id + 1 + SumSeq([m \in 1..(k - 1) |-> Size(sh[m])])
        name   == IF parent = 0 THEN "ROOT"
                  ELSE IF sh = <<>> THEN AllNames[id] ELSE NodeNames[id]
        me     == [node |-> Node(name, parent, Some(0), id + 1),
                   kids |-> [k \in 1..Len(sh) |-> cid(k)]]
    IN  <<me>> \o Concat([k \in 1..Len(sh) |-> Build(sh[k], id, cid(k))])

\* ------------------------------------------------------------------------
\* The sequence-graph collaborator (pangraph.graph.Graph), by its interface:
\* a representation is known by its compression ratio and its member set.
\* The ratio of a graph is chosen when the graph is first read (candidate at
\* the gate, result at the return); fuse and union yield the union of the
\* members of their inputs.  A Graph object is truthy, and the integrity
\* check (Tree.align.check) finds every sequence reconstructed, so it never
\* raises.

Graph(ratio, members) == [ratio |-> ratio, members |-> members]

Min(a, b) == IF a < b THEN a ELSE b
Max(a, b) == IF a > b THEN a ELSE b

\* ------------------------------------------------------------------------
\* Tree.align

Children(n) == lists[nodes[n].children]
CurNode == order[pos]

cutoff_margin8(r1, r2) == Max(0, Min(r1, r2) - 8)

\* lines 324-325 of merge0: the acceptance threshold (.05 is 5 hundredths)
cutoff(r1, r2) == Max(0, Min(r1, r2) - 5)

\* line 326 of merge0: the quality gate rejects the candidate
rejects(c, r1, r2) == c < cutoff(r1, r2)

\* line 338 of merge0: the refinement loop returns after this pass
stops(contin) == ~contin

another_round_offbyone(i) == i + 1 < MAXSELFMAPS + 1

\* line 331 of merge0: range(MAXSELFMAPS) has another round after round i
another_round(i) == i + 1 < MAXSELFMAPS

branch_noright(has0, has1) ==
    IF has0 /\ has1 THEN "merge0"
    ELSE IF has0 THEN "merge1_0"
    ELSE "skip"

\* lines 375-389 of Tree.align: which branch the walk takes at a node whose
\* children do (not) hold a graph
branch(has0, has1) ==
    IF has0 /\ has1 THEN "merge0"
    ELSE IF has0 THEN "merge1_0"
    ELSE IF has1 THEN "merge1_1"
    ELSE "skip"

merge1_targets_samechild(p) == <<Children(p)[1], Children(p)[1]>>

\* lines 342-343 of merge1: the nodes merged with `node`, in order
merge1_targets(p) == <<Children(p)[1], Children(p)[2]>>

merge1_keep_first(g1, g2, x1, x2) == IF IsSet(g1) THEN g1 ELSE g2

\* lines 344-350 of merge1: the graph kept, given both results and their
\* extensive compression ratios
merge1_keep(g1, g2, x1, x2) ==
    IF IsSet(g1) /\ IsSet(g2) THEN (IF x1 > x2 THEN g1 ELSE g2)
    ELSE IF IsSet(g1) THEN g1
    ELSE g2

\* lines 355-356: a tree with one leaf returns an empty Graph at once
AlignStart ==
    /\ apc = "start"
    /\ IF Len(aleaves) = 1
       THEN apc' = "done" /\ UNCHANGED seedk
       ELSE apc' = "seed" /\ seedk' = 1
    /\ UNCHANGED <<nodes, lists, njVars, ioVars, aroot, aleaves, order, pos, frame,
                   contins, exc, visits, finished, attempts, rejected, lastM0,
                   lastChoice>>

\* lines 358-364: one round of the seeding loop
SeedLeaf ==
    /\ apc = "seed"
    /\ seedk <= Len(aleaves)
    /\ \E r \in LeafRatios :
          LET n == aleaves[seedk]
          IN  nodes' = [nodes EXCEPT
                  ![n].graph = Some(Graph(r, {nodes[n].name})),
                  ![n].fapath = nodes[n].name]
    /\ seedk' = seedk + 1
    /\ IF seedk = Len(aleaves)
       THEN apc' = "walk" /\ order' = postorder(aroot) /\ pos' = 1
       ELSE UNCHANGED <<apc, order, pos>>
    /\ UNCHANGED <<lists, njVars, ioVars, aroot, aleaves, frame, contins, exc, visits,
                   finished, attempts, rejected, lastM0, lastChoice>>

\* entering merge0(a, b) from the walk at CurNode
Call(kind, a, b, node, p, g1) ==
    /\ frame' = Some([kind |-> kind, a |-> a, b |-> b, node |-> node,
                      p |-> p, g1 |-> g1])
    /\ attempts' = Append(attempts, [at |-> CurNode, a |-> a, b |-> b])
    /\ contins' = <<>>
    /\ lastChoice' = None
    /\ apc' = "merge0"

\* the loop body is over for CurNode (continue, or lines 391-402 done)
NextNode ==
    /\ pos' = pos + 1
    /\ finished' = finished \cup {CurNode}
    /\ apc' = "walk"
    /\ frame' = None

Raise(e) ==
    /\ apc' = "error"
    /\ exc' = e

\* lines 367-389: the loop body up to the call of merge0 or merge1
Visit ==
    /\ apc = "walk"
    /\ pos <= Len(order)
    /\ lastM0' = None
    /\ LET n == CurNode
           kids == Children(n)
       IN  IF is_leaf(n)
           THEN /\ NextNode
                /\ contins' = <<>>
                /\ lastChoice' = None
                /\ UNCHANGED <<nodes, visits, attempts, exc>>
           ELSE /\ visits' = [visits EXCEPT ![n] = @ + 1]
                /\ nodes' = [nodes EXCEPT ![n].fapath = nodes[n].name]
                /\ IF Len(kids) < 2
                   THEN /\ Raise("IndexError")
                        /\ UNCHANGED <<pos, finished, frame, attempts, contins,
                                       lastChoice>>
                   ELSE LET b == branch(IsSet(nodes[kids[1]].graph),
                                        IsSet(nodes[kids[2]].graph))
                            node == IF b = "merge1_1" THEN kids[2] ELSE kids[1]
                            p    == IF b = "merge1_1" THEN kids[1] ELSE kids[2]
                        IN  CASE b = "merge0" ->
                                   /\ Call("binary", kids[1], kids[2], kids[1], 0, None)
                                   /\ UNCHANGED <<pos, finished, exc>>
                              [] b = "skip" ->
                                   /\ NextNode
                                   /\ contins' = <<>>
                                   /\ lastChoice' = None
                                   /\ UNCHANGED <<attempts, exc>>
                              [] OTHER ->
                                   IF Len(Children(p)) < 2
                                   THEN /\ Raise("IndexError")
                                        /\ UNCHANGED <<pos, finished, frame,
                                                       attempts, contins, lastChoice>>
                                   ELSE /\ Call("first", node, merge1_targets(p)[1],
                                                node, p, None)
                                        /\ UNCHANGED <<pos, finished, exc>>
    /\ UNCHANGED <<lists, njVars, ioVars, aroot, aleaves, seedk, order, rejected>>

\* merge0 returns `res` to its caller: line 376 (binary merge), line 342
\* (first attempt of merge1) or line 343 (second attempt of merge1, then
\* lines 344-350 and the caller's lines 380-386)
Return(res) ==
    LET F == Val(frame)
        n == CurNode
    IN  CASE F.kind = "binary" ->
               /\ nodes' = [nodes EXCEPT ![n].graph = res]
               /\ NextNode
               /\ UNCHANGED <<attempts, exc, lastChoice>>
          [] F.kind = "first" ->
               /\ frame' = Some([F EXCEPT !.kind = "second", !.g1 = res,
                                          !.b = merge1_targets(F.p)[2]])
               /\ attempts' = Append(attempts,
                      [at |-> n, a |-> F.node, b |-> merge1_targets(F.p)[2]])
               /\ apc' = "merge0"
               /\ UNCHANGED <<nodes, pos, finished, exc, lastChoice>>
          [] F.kind = "second" ->
               \E x1, x2 \in XRatios :
                  LET kept == merge1_keep(F.g1, res, x1, x2)
                  IN  \* the extensive ratios are read only when both succeeded
                      /\ (IsSet(F.g1) /\ IsSet(res)) \/ (x1 = 1 /\ x2 = 1)
                      /\ nodes' = [nodes EXCEPT ![n].graph = kept]
                      /\ lastChoice' = Some([at |-> n, g1 |-> F.g1, g2 |-> res,
                                              x1 |-> x1, x2 |-> x2])
                      /\ IF IsSet(kept)
                         THEN /\ NextNode
                              /\ UNCHANGED <<attempts, exc>>
                         ELSE \* import ipdb; impdb.set_trace()
                              /\ \E e \in {"ModuleNotFoundError", "NameError"} : Raise(e)
                              /\ UNCHANGED <<pos, finished, frame, attempts>>

\* lines 318-329 of merge0: fuse, first union pass, quality gate
M0Gate ==
    /\ apc = "merge0"
    /\ LET F  == Val(frame)
           g1 == nodes[F.a].graph
           g2 == nodes[F.b].graph
       IN  IF ~IsSet(g1) \/ ~IsSet(g2)
           THEN \* Graph.fuse / compress_ratio on None
                /\ Raise("AttributeError")
                /\ UNCHANGED <<nodes, pos, finished, frame, contins, attempts,
                               rejected, lastM0, lastChoice>>
           ELSE \E c \in Ratios :
                   LET r1 == Val(g1).ratio
                       r2 == Val(g2).ratio
                       seen == [a |-> F.a, b |-> F.b, r1 |-> r1, r2 |-> r2,
                                cand |-> c, cutoff |-> cutoff(r1, r2)]
                   IN  IF rejects(c, r1, r2)
                       THEN /\ lastM0' = Some([seen |-> seen, outcome |-> "rejected",
                                               result |-> None])
                            /\ rejected' = IF F.kind = "binary"
                                           THEN rejected \cup {CurNode} ELSE rejected
                            /\ contins' = <<>>
                            /\ Return(None)
                       ELSE /\ lastM0' = Some([seen |-> seen, outcome |-> "refining",
                                               result |-> None])
                            /\ apc' = "refine"
                            /\ contins' = <<>>
                            /\ UNCHANGED <<nodes, pos, finished, frame, attempts,
                                           rejected, exc, lastChoice>>
    /\ UNCHANGED <<lists, njVars, ioVars, aroot, aleaves, seedk, order, visits>>

\* lines 331-339 of merge0: one round of the self-refinement loop
M0Pass ==
    /\ apc = "refine"
    /\ \E contin \in BOOLEAN :
          LET F == Val(frame)
              members == Val(nodes[F.a].graph).members \cup Val(nodes[F.b].graph).members
              done == Append(contins, contin)
          IN  IF stops(contin)
              THEN \E r \in Ratios :
                      /\ contins' = <<>>
                      /\ lastM0' = Some([Val(lastM0) EXCEPT !.outcome = "returned",
                                            !.result = Some(Graph(r, members))])
                      /\ Return(Some(Graph(r, members)))
              ELSE IF another_round(Len(contins))
              THEN /\ contins' = done
                   /\ UNCHANGED <<nodes, apc, pos, finished, frame, attempts, exc,
                                  lastM0, lastChoice>>
              ELSE \* the loop runs out: merge0 ends without a return statement
                   /\ contins' = <<>>
                   /\ lastM0' = Some([Val(lastM0) EXCEPT !.outcome = "exhausted",
                                         !.result = None])
                   /\ Return(None)
    /\ UNCHANGED <<lists, njVars, ioVars, aroot, aleaves, seedk, order, visits, rejected>>

\* the walk has run through the whole postorder sequence: align returns
AlignReturn ==
    /\ apc = "walk"
    /\ pos > Len(order)
    /\ apc' = "done"
    /\ lastM0' = None
    /\ lastChoice' = None
    /\ UNCHANGED <<nodes, lists, njVars, ioVars, aroot, aleaves, seedk, order, pos,
                   frame, contins, exc, visits, finished, attempts, rejected>>

InitAlign ==
    /\ \E sh \in AllShapes :
          LET b == Build(sh, 0, 1)
          IN  /\ nodes = [k \in 1..Len(b) |-> b[k].node]
              /\ lists = <<<<>>>> \o [k \in 1..Len(b) |-> b[k].kids]
    /\ NjIdle
    /\ IoIdle
    /\ apc = "start"
    /\ aroot = 1
    /\ aleaves = LeavesOf(1)
    /\ seedk = 0
    /\ order = <<>>
    /\ pos = 0
    /\ frame = None
    /\ contins = <<>>
    /\ exc = ""
    /\ visits = [k \in 1..Len(nodes) |-> 0]
    /\ finished = {}
    /\ attempts = <<>>
    /\ rejected = {}
    /\ lastM0 = None
    /\ lastChoice = None

NextAlign == AlignStart \/ SeedLeaf \/ Visit \/ M0Gate \/ M0Pass \/ AlignReturn

SpecAlign == InitAlign /\ [][NextAlign]_vars

\* ------------------------------------------------------------------------
\* Writing and reading a tree: Node.to_json, Tree.write_json, Node.from_dict,
\* Tree.from_json, Tree.attach

\* A Python dict: the sequence of its <<key, value>> pairs in insertion
\* order; a key that is set again keeps its place and takes the new value
DictHas(d, key) == \E k \in 1..Len(d) : d[k][1] = key
DictGet(d, key) == d[CHOOSE k \in 1..Len(d) : d[k][1] = key][2]
DictSet(d, key, v) ==
    IF DictHas(d, key)
    THEN [k \in 1..Len(d) |-> IF d[k][1] = key THEN <<key, v>> ELSE d[k]]
    ELSE Append(d, <<key, v>>)

\* a dict comprehension over the pairs `ps`
RECURSIVE DictOf(_)
DictOf(ps) ==
    IF ps = <<>> THEN <<>>
    ELSE DictSet(DictOf(SubSeq(ps, 1, Len(ps) - 1)), ps[Len(ps)][1], ps[Len(ps)][2])

\* Bio.Seq.Seq(s) and str() of it
BioSeq(s) == [seq |-> s]
str(v) == v.seq

SeqVals == {"ACGT", "TT"}
\* branch lengths of the trees that are written: None, 0 or a length
JDists == {None, Some(0), Some(3)}

\* Node.postorder and Tree.get_leafs read off a heap H = [nodes, lists]
RECURSIVE postorder_in(_, _)
postorder_in(H, n) ==
    LET ch == H.lists[H.nodes[n].children]
    IN  Concat([k \in 1..Len(ch) |-> postorder_in(H, ch[k])]) \o <<n>>

get_leafs_in(H, root) ==
    SelectSeq(postorder_in(H, root),
              LAMBDA n : Len(H.lists[H.nodes[n].children]) = 0)

\* lines 258 and 150: {n.name: n for n in self.get_leafs()}
leafs_in(H, root) ==
    LET l == get_leafs_in(H, root)
    IN  DictOf([k \in 1..Len(l) |-> <<H.nodes[l[k]].name, l[k]>>])

leafs(root) == leafs_in([nodes |-> nodes, lists |-> lists], root)

\* Tree.attach : line 259, seqs a dict from leaf name to sequence
attach(root, seqs) ==
    DictOf([k \in 1..Len(seqs) |-> <<DictGet(leafs(root), seqs[k][1]), seqs[k][2]>>])

\* Node.to_json : the dict of a node (the trees written here hold no graph,
\* so Graph.to_dict is never called)
RECURSIVE to_json(_)
to_json(n) ==
    [name     |-> nodes[n].name,
     dist     |-> nodes[n].dist,
     children |-> [k \in 1..Len(Children(n)) |-> to_json(Children(n)[k])],
     fapath   |-> nodes[n].fapath,
     graph    |-> nodes[n].graph]

\* line 413 of Tree.write_json
write_data(root, seqs) ==
    [tree |-> to_json(root),
     seqs |-> DictOf([k \in 1..Len(seqs) |->
                         <<nodes[seqs[k][1]].name, str(seqs[k][2])>>])]

\* JSON text as a sequence of tokens
Punct(c) == [t |-> "punct", v |-> c]
StrTok(x) == [t |-> "str", v |-> x]
NumTok(x) == [t |-> "num", v |-> x]
NullTok == [t |-> "null", v |-> 0]
IsPunct(tok, c) == tok.t = "punct" /\ tok.v = c

\* json.dumps of a dist: null for None, the number otherwise
dumps_opt(o) == IF IsSet(o) THEN <<NumTok(Val(o))>> ELSE <<NullTok>>

\* json.dumps of the dict of a node
RECURSIVE dumps_node(_)
dumps_node(d) ==
    <<Punct("{"), StrTok("name"), StrTok(d.name), StrTok("dist")>>
    \o dumps_opt(d.dist)
    \o <<StrTok("children"), Punct("[")>>
    \o Concat([k \in 1..Len(d.children) |-> dumps_node(d.children[k])])
    \o <<Punct("]"), StrTok("fapath"), StrTok(d.fapath), StrTok("graph"),
         NullTok, Punct("}")>>

\* json.dumps(data), line 414
dumps(data) ==
    <<Punct("{"), StrTok("tree")>> \o dumps_node(data.tree)
    \o <<StrTok("seqs"), Punct("{")>>
    \o Concat([k \in 1..Len(data.seqs) |->
                  <<StrTok(data.seqs[k][1]), StrTok(data.seqs[k][2])>>])
    \o <<Punct("}"), Punct("}")>>

\* json.load of a dist
loads_opt(tok) == IF tok.t = "num" THEN Some(tok.v) ELSE None

\* json.load of the node object that starts at position i of the text tx:
\* the dict read and the position after it
RECURSIVE loads_node(_, _)
RECURSIVE loads_list(_, _, _)
loads_node(tx, i) ==
    LET kids == loads_list(tx, i + 7, <<>>)
        j    == kids.next
    IN  [val  |-> [name     |-> tx[i + 2].v,
                   dist     |-> loads_opt(tx[i + 4]),
                   children |-> kids.val,
                   fapath   |-> tx[j + 1].v,
                   graph    |-> None],
         next |-> j + 5]

loads_list(tx, i, acc) ==
    IF IsPunct(tx[i], "]") THEN [val |-> acc, next |-> i + 1]
    ELSE LET c == loads_node(tx, i)
         IN  loads_list(tx, c.next, Append(acc, c.val))

RECURSIVE loads_pairs(_, _, _)
loads_pairs(tx, i, acc) ==
    IF IsPunct(tx[i], "}") THEN acc
    ELSE loads_pairs(tx, i + 2, Append(acc, <<tx[i].v, tx[i + 1].v>>))

\* json.load(rdr), line 146
loads(tx) ==
    LET tree == loads_node(tx, 3)
    IN  [tree |-> tree.val,
         seqs |-> DictOf(loads_pairs(tx, tree.next + 2, <<>>))]

from_dict_node_orphan(d, parent) == Node(d.name, 0, d.dist, DefaultChildren)

\* line 89 of Node.from_dict: the Node is built without a children
\* argument, so it first refers to the default list
from_dict_node(d, parent) == Node(d.name, parent, d.dist, DefaultChildren)

\* Node.from_dict on the heap H: the heap after it and the id of the new Node
RECURSIVE from_dict(_, _, _)
RECURSIVE from_dict_all(_, _, _, _)
from_dict(d, parent, H) ==
    LET id  == Len(H.nodes) + 1
        H1  == [nodes |-> Append(H.nodes, from_dict_node(d, parent)),
                lists |-> H.lists]
        K   == from_dict_all(d.children, id, H1, <<>>)
        lid == Len(K.lists) + 1
    IN  [nodes |-> [K.nodes EXCEPT ![id].children = lid,
                                   ![id].fapath = d.fapath,
                                   ![id].graph = d.graph],
         lists |-> Append(K.lists, K.ids),
         id    |-> id]

\* line 90: the list comprehension over d['children']
from_dict_all(ds, parent, H, ids) ==
    IF ds = <<>> THEN [nodes |-> H.nodes, lists |-> H.lists, ids |-> ids]
    ELSE LET c == from_dict(Head(ds), parent, H)
         IN  from_dict_all(Tail(ds), parent,
                           [nodes |-> c.nodes, lists |-> c.lists],
                           Append(ids, c.id))

\* Tree.from_json on the text tx: the heap after it and the new Tree
from_json(tx, H) ==
    LET data == loads(tx)
        R    == from_dict(data.tree, 0, H)
        lf   == leafs_in(R, R.id)
    IN  [nodes |-> R.nodes,
         lists |-> R.lists,
         root  |-> R.id,
         seqs  |-> DictOf([k \in 1..Len(data.seqs) |->
                     <<DictGet(lf, data.seqs[k][1]), BioSeq(data.seqs[k][2])>>])]

\* the dicts a caller can pass to Tree.attach: a sequence for every leaf name
SeqDicts(root) ==
    LET lf == leafs(root)
    IN  {[k \in 1..Len(lf) |-> <<lf[k][1], BioSeq(v[k])>>] :
            v \in [1..Len(lf) -> SeqVals]}

Attach ==
    /\ jpc = "built"
    /\ \E seqs \in SeqDicts(jroot) : jseqs' = attach(jroot, seqs)
    /\ jpc' = "attached"
    /\ UNCHANGED <<nodes, lists, njVars, alignVars, parseVars, jroot, file, loaded>>

\* Tree.write_json
WriteJson ==
    /\ jpc = "attached"
    /\ file' = dumps(write_data(jroot, jseqs))
    /\ jpc' = "written"
    /\ UNCHANGED <<nodes, lists, njVars, alignVars, parseVars, jroot, jseqs, loaded>>

\* Tree.from_json
FromJson ==
    /\ jpc = "written"
    /\ LET R == from_json(file, [nodes |-> nodes, lists |-> lists])
       IN  /\ nodes' = R.nodes
           /\ lists' = R.lists
           /\ loaded' = Some([root |-> R.root, seqs |-> R.seqs])
    /\ jpc' = "loaded"
    /\ UNCHANGED <<njVars, alignVars, parseVars, jroot, jseqs, file>>

\* the trees that are written: every binary shape with at most MaxLeaves
\* leaves; the root refers to its own children list or, as the root of a
\* tree returned by Tree.nj, to the default list; leaf names are distinct or
\* the last leaf bears the name of the first
InitJson ==
    /\ \E sh \in AllShapes : \E dv \in [1..2 -> JDists] : \E shared, dup \in BOOLEAN :
          LET b     == Build(sh, 0, 1)
              first == CHOOSE k \in 1..Len(b) :
                          b[k].kids = <<>> /\ \A m \in 1..(k - 1) : b[m].kids # <<>>
              nm(k) == IF dup /\ k = Len(b) THEN b[first].node.name
                       ELSE b[k].node.name
              own   == <<<<>>>> \o [k \in 1..Len(b) |-> b[k].kids]
          IN  /\ nodes = [k \in 1..Len(b) |->
                    [b[k].node EXCEPT
                        !.name = nm(k),
                        !.dist = IF k = 1 THEN Some(0) ELSE dv[(k % 2) + 1],
                        !.children = IF shared /\ k = 1 THEN DefaultChildren ELSE @]]
              /\ lists = IF shared THEN [own EXCEPT ![1] = b[1].kids, ![2] = <<>>]
                         ELSE own
    /\ NjIdle
    /\ AlignIdle
    /\ ParseIdle
    /\ jpc = "built"
    /\ jroot = 1
    /\ jseqs = <<>>
    /\ file = <<>>
    /\ loaded = None

NextJson == Attach \/ WriteJson \/ FromJson

SpecJson == InitJson /\ [][NextJson]_vars

\* ------------------------------------------------------------------------
\* parse: reading the similarity table

\* one similarity unit: 1.0 is PUnit, so that halves of the table's values
\* are exact
PUnit == 20

\* the first token of a line is a path, a sequence of segments; the last
\* three characters of a segment are its `ext`
Seg(stem, ext) == [stem |-> stem, ext |-> ext]
Toks == {<<Seg("A", ".fa")>>,
         <<Seg("old", ""), Seg("A", ".gb")>>,
         <<Seg("B", ".fa")>>,
         <<Seg("data", ""), Seg("C", ".fa")>>}

\* line 34: e[0].split('/')[-1][:-3]
name_of(tok) == tok[Len(tok)].stem

\* np.zeros((nrows, nrows))
zeros(n) == [r \in 1..n |-> [c \in 1..n |-> 0]]

seen_last(n, seq_names) == seq_names # <<>> /\ seq_names[Len(seq_names)] = n

\* line 35: n in seq_names
seen(n, seq_names) == n \in Range(seq_names)

\* lines 32-39: the loop over the first li lines; line li (0-based li - 1)
\* fills columns 1..li of row li, unless its name was seen before
RECURSIVE parse_loop(_, _)
parse_loop(tb, li) ==
    IF li = 0 THEN [M |-> zeros(tb.nrows), seq_names |-> <<>>, del_idxs |-> <<>>]
    ELSE LET st == parse_loop(tb, li - 1)
             e  == tb.lines[li]
             n  == name_of(e.tok)
         IN  IF ~seen(n, st.seq_names)
             THEN [M |-> [st.M EXCEPT ![li] =
                            [c \in 1..tb.nrows |-> IF c <= li THEN e.vals[c] ELSE @[c]]],
                   seq_names |-> Append(st.seq_names, n),
                   del_idxs |-> st.del_idxs]
             ELSE [st EXCEPT !.del_idxs = Append(@, li)]

\* lines 41-42: np.delete along both axes
np_delete(M, del_idxs) ==
    LET keep == SelectSeq([k \in 1..Len(M) |-> k], LAMBDA k : k \notin Range(del_idxs))
    IN  [r \in 1..Len(keep) |-> [c \in 1..Len(keep) |-> M[keep[r]][keep[c]]]]

\* lines 45-46 (with nodiag, lines 22-23): M = 1 - M; nodiag(M + M.T)/2
symmetrize(M) ==
    LET D == [r \in 1..Len(M) |-> [c \in 1..Len(M) |-> PUnit - M[r][c]]]
    IN  [r \in 1..Len(M) |-> [c \in 1..Len(M) |->
            IF r = c THEN 0 ELSE (D[r][c] + D[c][r]) \div 2]]

parse(tb) ==
    LET st == parse_loop(tb, Len(tb.lines))
    IN  [M |-> symmetrize(np_delete(st.M, st.del_idxs)), seq_names |-> st.seq_names]

\* the value the table gives at line r, column c (c <= r): the diagonal is
\* the similarity 1.0 of a sequence with itself, the others differ by place
SimAt(p, r, c) == IF r = c THEN PUnit ELSE 2 * ((PairIndex(c, r) + p) % 10)

\* the tables handed to parse: 1..MaxRows lines, the header giving their
\* number, line r holding a path and r values
Tables ==
    UNION {{[nrows |-> n,
             lines |-> [r \in 1..n |-> [tok |-> tk[r],
                                        vals |-> [c \in 1..r |-> SimAt(p, r, c)]]]] :
               tk \in [1..n -> Toks], p \in {1, 4}} : n \in 1..MaxRows}

ParseGiven ==
    /\ ppc = "none"
    /\ \E tb \in Tables : table' = tb
    /\ ppc' = "given"
    /\ UNCHANGED <<nodes, lists, njVars, alignVars, jsonVars, parsed>>

Parse ==
    /\ ppc = "given"
    /\ parsed' = Some(parse(table))
    /\ ppc' = "done"
    /\ UNCHANGED <<nodes, lists, njVars, alignVars, jsonVars, table>>

InitParse ==
    /\ nodes = <<>>
    /\ lists = <<<<>>>>
    /\ NjIdle
    /\ AlignIdle
    /\ JsonIdle
    /\ ParseIdle

NextParse == ParseGiven \/ Parse

SpecParse == InitParse /\ [][NextParse]_vars

\* ------------------------------------------------------------------------
\* Claims about Tree.nj

\* the tree returned by the call of Tree.nj that has just returned
Returned == njpc = "idle" /\ err = "" /\ trees # <<>>
LastTree == trees[Len(trees)]

\* C1 (as claimed): the tree returned by Tree.nj has exactly the n input
\* names as its leaves, one leaf per name, and the root and every internal
\* node have exactly two children.
C1_LeavesAreNamesAndBinary ==
    Returned =>
        LET t  == LastTree
            po == postorder(t.root)
        IN  /\ Len(LeafNames(t.root)) = Len(t.names)
            /\ Range(LeafNames(t.root)) = Range(t.names)
            /\ \A k \in 1..Len(po) :
                   ~is_leaf(po[k]) => Len(lists[nodes[po[k]].children]) = 2

\* C2 (as claimed): every non-root node of the tree returned by Tree.nj has
\* a branch length that is set and non-negative.
C2_BranchLengthsNonNegative ==
    Returned =>
        LET t  == LastTree
            po == postorder(t.root)
        IN  \A k \in 1..Len(po) :
                po[k] # t.root =>
                    /\ IsSet(nodes[po[k]].dist)
                    /\ Val(nodes[po[k]].dist) >= 0

\* C3 (as claimed): in every join step d1 + d2 = D[i,j] before the
\* negative-branch correction, and after it d1 + d2 is still D[i,j] and both
\* are non-negative.
C3_BranchLengthConservation ==
    IsSet(lastJoin) =>
        LET J == Val(lastJoin)
        IN  /\ J.raw[1] + J.raw[2] = J.Dij
            /\ J.d1 + J.d2 = J.Dij
            /\ J.d1 >= 0
            /\ J.d2 >= 0

\* C4 (as claimed): every iteration of the join loop shrinks the matrix by
\* one row and one column, the number of children of the synthetic root
\* equals the matrix dimension before and after every iteration, and the
\* loop exits with two root children and a 2 x 2 matrix.
C4_MatrixReduction ==
    /\ njpc = "loop" =>
          /\ Len(RootChildren(T)) = Len(mtx)
          /\ \A r \in 1..Len(mtx) : Len(mtx[r]) = Len(mtx)
          /\ IsSet(lastJoin) => Len(mtx) = Val(lastJoin).dimBefore - 1
    /\ Returned => Len(RootChildren(LastTree.root)) = 2 /\ Len(mtx) = 2

\* C14: a call of Tree.nj whose name list holds a name twice raises an
\* AssertionError, creates no Node and no list, returns no tree, and leaves
\* the caller's matrix as it was given.
C14_DuplicateNamesRejected ==
    [][(ncalls' # ncalls /\
        \E a, b \in DOMAIN Val(arg').names :
            a # b /\ Val(arg').names[a] = Val(arg').names[b])
       => /\ err' = "AssertionError"
          /\ njpc' = "idle"
          /\ nodes' = nodes /\ lists' = lists
          /\ trees' = trees
          /\ Val(arg').now = Val(arg').given]_vars

\* a call with a repeated name has failed after an earlier call built a tree
\* from a matrix with more than two rows
C14_Witness ==
    /\ err = "AssertionError"
    /\ trees # <<>>
    /\ Len(Val(arg).given) > 2
    /\ Val(arg).names[1] = Val(arg).names[Len(Val(arg).names)]

\* ------------------------------------------------------------------------
\* Claims about Tree.align

Internal(n) == n \in 1..Len(nodes) /\ ~is_leaf(n)
HasGraph(n) == IsSet(nodes[n].graph)
ProperDescendants(n) == Range(postorder(n)) \ {n}
M0Over == IsSet(lastM0) /\ Val(lastM0).outcome # "refining"

\* C5 (as claimed): a merge0 whose candidate has ratio >= min(ratio(A),
\* ratio(B)) always returns a representation, whatever the self-union passes
\* answer, also when all 25 passes report that more work remains.
C5_GoodCandidateAccepted ==
    M0Over =>
        LET m == Val(lastM0)
        IN  m.seen.cand >= Min(m.seen.r1, m.seen.r2) => IsSet(m.result)

\* C6: a merge0 whose candidate has ratio < min(ratio(A), ratio(B)) - 0.05
\* returns no representation and runs no self-refinement pass; the threshold
\* applied is max(0, min(ratio(A), ratio(B)) - 0.05), and the gate rejects
\* exactly the candidates below it.
C6_BadCandidateRejected ==
    IsSet(lastM0) =>
        LET m   == Val(lastM0)
            low == Min(m.seen.r1, m.seen.r2) - 5
        IN  /\ m.seen.cutoff = (IF low > 0 THEN low ELSE 0)
            /\ (m.outcome = "rejected") <=> (m.seen.cand < m.seen.cutoff)
            /\ m.seen.cand < low =>
                  /\ m.outcome = "rejected"
                  /\ m.result = None
                  /\ contins = <<>>
                  /\ apc # "refine"

C6_Witness ==
    /\ IsSet(lastM0)
    /\ Val(lastM0).outcome = "rejected"
    /\ Val(lastM0).seen.cand < Min(Val(lastM0).seen.r1, Val(lastM0).seen.r2) - 5

\* C7: the self-refinement loop of merge0 makes at most 25 passes (while the
\* loop is running fewer than 25 have been made, so the 25th is the last),
\* and no pass is made after one that answered moreWorkRemaining = false
\* (while the loop is running every answer so far was true).
C7_RefinementLoopBounded ==
    /\ Len(contins) < 25
    /\ apc = "refine" => \A k \in 1..Len(contins) : contins[k] = TRUE
    /\ apc # "refine" => contins = <<>>
    /\ (IsSet(lastM0) /\ Val(lastM0).outcome \in {"returned", "exhausted"}) =>
           apc # "refine"

C7_Witness == IsSet(lastM0) /\ Val(lastM0).outcome = "exhausted"

\* C8: every leaf holds a graph before any internal node is processed; when
\* an internal node is processed (and so while its merge runs) the loop body
\* of every one of its proper descendants has completed; no internal node is
\* processed twice, and when align returns every internal node has been
\* processed exactly once.
C8_ChildrenBeforeParents ==
    /\ (\E n \in 1..Len(nodes) : visits[n] > 0) =>
           \A l \in 1..Len(nodes) : is_leaf(l) => HasGraph(l)
    /\ \A n \in 1..Len(nodes) :
           /\ visits[n] <= 1
           /\ visits[n] > 0 => ProperDescendants(n) \subseteq finished
    /\ apc \in {"merge0", "refine"} =>
           /\ visits[CurNode] = 1
           /\ CurNode \notin finished
           /\ ProperDescendants(CurNode) \subseteq finished
    /\ (apc = "done" /\ Len(aleaves) > 1) =>
           \A n \in 1..Len(nodes) : Internal(n) => visits[n] = 1

\* a merge is refining at a node one of whose children is an internal node
\* that went through its own merge
C8_Witness ==
    /\ apc = "refine"
    /\ \E c \in Range(Children(CurNode)) : Internal(c) /\ HasGraph(c)

\* C9: at an internal node, both children with a graph -> merge0 of the two
\* children is called; exactly one child with a graph -> merge1 of that
\* child and its sibling is called; neither -> no merge is called, the node
\* keeps no graph, nothing is raised and the walk moves to the next node.
C9_Dispatch ==
    [][(apc = "walk" /\ pos <= Len(order) /\ ~is_leaf(CurNode)) =>
        LET n  == CurNode
            c0 == Children(n)[1]
            c1 == Children(n)[2]
        IN  /\ (HasGraph(c0) /\ HasGraph(c1)) =>
                  /\ apc' = "merge0"
                  /\ Val(frame').kind = "binary"
                  /\ attempts' = Append(attempts, [at |-> n, a |-> c0, b |-> c1])
            /\ (HasGraph(c0) /\ ~HasGraph(c1)) =>
                  /\ apc' = "merge0"
                  /\ Val(frame').kind = "first"
                  /\ Val(frame').node = c0 /\ Val(frame').p = c1
                  /\ Len(attempts') = Len(attempts) + 1
                  /\ attempts'[Len(attempts')].a = c0
            /\ (~HasGraph(c0) /\ HasGraph(c1)) =>
                  /\ apc' = "merge0"
                  /\ Val(frame').kind = "first"
                  /\ Val(frame').node = c1 /\ Val(frame').p = c0
                  /\ Len(attempts') = Len(attempts) + 1
                  /\ attempts'[Len(attempts')].a = c1
            /\ (~HasGraph(c0) /\ ~HasGraph(c1)) =>
                  /\ attempts' = attempts
                  /\ frame' = None
                  /\ ~IsSet(nodes'[n].graph)
                  /\ exc' = "" /\ apc' = "walk"
                  /\ pos' = pos + 1]_vars

\* a node was skipped because neither child held a graph, and the walk went on
C9_Witness ==
    \E n \in finished :
        /\ Internal(n)
        /\ ~HasGraph(n)
        /\ \A c \in Range(Children(n)) : ~HasGraph(c)
        /\ \A k \in 1..Len(attempts) : attempts[k].at # n
        /\ apc = "done"

\* the attempts made at node P, in order
AttemptsAt(P) == SelectSeq(attempts, LAMBDA t : t.at = P)

\* C10: a node X whose binary merge the quality gate rejected holds no graph
\* and its loop body completed without an exception; and once X's parent P
\* has been processed (to completion or up to an exception) with X's sibling
\* S holding a graph, merge0(S, c) has been called at P for each of X's two
\* children c, in order.
C10_RejectionFallsBack ==
    /\ \A X \in rejected : ~HasGraph(X) /\ X \in finished
    /\ (attempts # <<>> /\ attempts[Len(attempts)].at \in rejected) =>
           exc = "" /\ apc \in {"walk", "done"}
    /\ \A X \in rejected :
           LET P == nodes[X].parent
           IN  (P # 0 /\ (P \in finished \/ (apc = "error" /\ CurNode = P))) =>
                   \A S \in Range(Children(P)) \ {X} :
                       HasGraph(S) =>
                           AttemptsAt(P) =
                               <<[at |-> P, a |-> S, b |-> Children(X)[1]],
                                 [at |-> P, a |-> S, b |-> Children(X)[2]]>>

\* the parent of a gate-rejected node has been processed with the sibling
\* holding a graph
C10_Witness ==
    \E X \in rejected :
        /\ nodes[X].parent # 0
        /\ nodes[X].parent \in finished
        /\ \E S \in Range(Children(nodes[X].parent)) \ {X} : HasGraph(S)

\* C11: when the first merge0 of a merge1 returns (a graph or None), the
\* second merge0 is called next, on the same node and the other child of p;
\* when the second returns, the graph left on the node is: if both returned
\* a graph, the one whose extensive compression ratio is higher; if exactly
\* one returned a graph, that one.
C11_Merge1KeepsBetter ==
    [][(IsSet(frame) /\ IsSet(lastM0') /\ Val(lastM0').outcome # "refining") =>
        LET F == Val(frame)
            n == CurNode
            res == Val(lastM0').result
        IN  /\ F.kind = "first" =>
                  /\ apc' = "merge0"
                  /\ Val(frame').kind = "second"
                  /\ Val(frame').g1 = res
                  /\ attempts' = Append(attempts,
                         [at |-> n, a |-> F.node, b |-> Children(F.p)[2]])
            /\ F.kind = "second" =>
                  LET c == Val(lastChoice')
                      kept == nodes'[n].graph
                  IN  /\ c.g1 = F.g1 /\ c.g2 = res
                      /\ (IsSet(F.g1) /\ IsSet(res) /\ c.x1 > c.x2) => kept = F.g1
                      /\ (IsSet(F.g1) /\ IsSet(res) /\ c.x2 > c.x1) => kept = res
                      /\ (IsSet(F.g1) /\ ~IsSet(res)) => kept = F.g1
                      /\ (~IsSet(F.g1) /\ IsSet(res)) => kept = res]_vars

\* a merge1 whose two attempts both returned a graph kept the first one,
\* because its extensive ratio was higher
C11_Witness ==
    /\ IsSet(lastChoice)
    /\ IsSet(Val(lastChoice).g1) /\ IsSet(Val(lastChoice).g2)
    /\ Val(lastChoice).x1 > Val(lastChoice).x2
    /\ nodes[Val(lastChoice).at].graph = Val(lastChoice).g1

\* C12: when neither merge0 attempt of a merge1 returned a graph, align has
\* not failed and the node is left without a graph, as after a rejected
\* binary merge.
C12_FailedFallbackContinues ==
    (IsSet(lastChoice) /\ ~IsSet(Val(lastChoice).g1) /\ ~IsSet(Val(lastChoice).g2))
        => (apc # "error" /\ ~IsSet(nodes[Val(lastChoice).at].graph))

\* ------------------------------------------------------------------------
\* Claims about the JSON round trip

\* the tree below node n as a value: names, branch lengths, child order
RECURSIVE TreeOf(_)
TreeOf(n) ==
    [name |-> nodes[n].name, dist |-> nodes[n].dist,
     kids |-> [k \in 1..Len(Children(n)) |-> TreeOf(Children(n)[k])]]

\* position of node n in the postorder of the tree below root
PostPos(root, n) == CHOOSE k \in 1..Len(postorder(root)) : postorder(root)[k] = n

\* what a seqs dict says: which leaf (by position and name) has which text
SeqMap(root, seqs) ==
    {<<PostPos(root, seqs[k][1]), nodes[seqs[k][1]].name, str(seqs[k][2])>> :
        k \in 1..Len(seqs)}

ParentsConsistent(root) ==
    /\ nodes[root].parent = 0
    /\ \A n \in Range(postorder(root)) :
          \A k \in 1..Len(Children(n)) : nodes[Children(n)[k]].parent = n

\* C13: the tree read back by Tree.from_json from what Tree.write_json wrote
\* has the same shape and child order, the same names and branch lengths,
\* the same mapping from leaves to sequences, and every child's parent is
\* the node whose children list holds it.
C13_JsonRoundTrip ==
    jpc = "loaded" =>
        LET L == Val(loaded)
        IN  /\ TreeOf(L.root) = TreeOf(jroot)
            /\ SeqMap(L.root, L.seqs) = SeqMap(jroot, jseqs)
            /\ \A k \in 1..Len(L.seqs) : is_leaf(L.seqs[k][1])
            /\ ParentsConsistent(L.root)

\* a tree with an inner node below the root, two different sequences and
\* both kinds of branch length has been read back
C13_Witness ==
    /\ jpc = "loaded"
    /\ Len(postorder(Val(loaded).root)) >= 5
    /\ \E a, b \in 1..Len(jseqs) : jseqs[a][2] # jseqs[b][2]
    /\ \E n, m \in Range(postorder(jroot)) :
          nodes[n].dist = None /\ nodes[m].dist = Some(3)

\* ------------------------------------------------------------------------
\* Further claims about Tree.nj

\* C15: a call of Tree.nj with ExampleMatrix over A, B, C returns a root
\* with two children: an internal node joining A (branch length 0.2) and B
\* (branch length 0.1), and the leaf C, each with branch length 0.15.
C15_WorkedExample ==
    (Returned /\ Val(arg).given = ExampleMatrix /\ names = <<"A", "B", "C">>) =>
        LET rc == RootChildren(LastTree.root)
        IN  /\ Len(rc) = 2
            /\ nodes[rc[2]].name = "C" /\ is_leaf(rc[2])
            /\ Len(Children(rc[1])) = 2
            /\ LET a == Children(rc[1])[1]
                   b == Children(rc[1])[2]
               IN  /\ nodes[a].name = "A" /\ is_leaf(a)
                   /\ nodes[b].name = "B" /\ is_leaf(b)
                   /\ nodes[a].dist = Some(2 * SCALE)
                   /\ nodes[b].dist = Some(SCALE)
            /\ nodes[rc[1]].dist = Some((3 * SCALE) \div 2)
            /\ nodes[rc[2]].dist = Some((3 * SCALE) \div 2)

\* ------------------------------------------------------------------------
\* Claims about parse

\* the identifiers of the lines of the table, in order
Ids == [r \in 1..Len(table.lines) |-> name_of(table.lines[r].tok)]

\* the line on which identifier n occurs first
FirstLine(n) == CHOOSE r \in 1..Len(Ids) : Ids[r] = n /\ \A o \in 1..(r - 1) : Ids[o] # n

\* the table read with every line filled in and nothing deleted
FullMatrix ==
    symmetrize([r \in 1..table.nrows |-> [c \in 1..table.nrows |->
                   IF c <= r THEN table.lines[r].vals[c] ELSE 0]])

\* C16: parse returns the distinct identifiers in the order of their first
\* lines; the matrix is square with one row and column per kept name; and
\* its entry [k, m] is the entry of the first lines of the k-th and m-th
\* kept names (rows and columns of repeated identifiers are gone).
C16_FirstOccurrenceKept ==
    ppc = "done" =>
        LET P == Val(parsed)
            K == Len(P.seq_names)
        IN  /\ Range(P.seq_names) = Range(Ids)
            /\ K = Cardinality(Range(Ids))
            /\ \A k, m \in 1..K :
                  k < m => FirstLine(P.seq_names[k]) < FirstLine(P.seq_names[m])
            /\ Len(P.M) = K
            /\ \A k \in 1..K : Len(P.M[k]) = K
            /\ \A k, m \in 1..K :
                  P.M[k][m] = FullMatrix[FirstLine(P.seq_names[k])][FirstLine(P.seq_names[m])]

\* a table of four lines whose second line repeats the first identifier has
\* been parsed to three names
C16_Witness ==
    /\ ppc = "done"
    /\ Len(table.lines) = 4
    /\ Ids[2] = Ids[1]
    /\ Len(Val(parsed).seq_names) = 3

\* C17: the matrix parse returns is symmetric with a zero diagonal, and its
\* entry for two distinct kept identifiers is 1 minus the similarity the
\* table gives for the pair.
C17_OneMinusSimilarity ==
    ppc = "done" =>
        LET P == Val(parsed)
            K == Len(P.seq_names)
            line(k) == FirstLine(P.seq_names[k])
        IN  \A k, m \in 1..K :
               /\ P.M[k][m] = P.M[m][k]
               /\ P.M[k][k] = 0
               /\ k > m => P.M[k][m] = PUnit - table.lines[line(k)].vals[line(m)]

\* ------------------------------------------------------------------------
\* Claims about successive calls of Tree.nj

\* C18: at every moment, every tree returned so far has exactly the names
\* of its call as leaves and a root with two children; during a call the
\* root has as many children as the matrix has rows; and no two Nodes refer
\* to the same children list.
C18_CallsIndependent ==
    /\ \A k \in 1..Len(trees) :
          /\ Range(LeafNames(trees[k].root)) = Range(trees[k].names)
          /\ Len(LeafNames(trees[k].root)) = Len(trees[k].names)
          /\ Len(RootChildren(trees[k].root)) = 2
    /\ njpc = "loop" => Len(RootChildren(T)) = Len(mtx)
    /\ \A a, b \in 1..Len(nodes) : a # b => nodes[a].children # nodes[b].children

\* ------------------------------------------------------------------------
\* Further claims about Tree.align

\* C19: whenever merge0 is about to run, both of its arguments hold a graph.
C19_Merge0OnGraphsOnly ==
    (apc = "merge0" /\ IsSet(frame)) =>
        (HasGraph(Val(frame).a) /\ HasGraph(Val(frame).b))

\* C20: the members of the graph held by a node are exactly the names of
\* the leaves of the subtree of that node.
C20_GraphCoversSubtree ==
    \A n \in 1..Len(nodes) :
        HasGraph(n) => Val(nodes[n].graph).members = Range(LeafNames(n))

====
